---- MODULE Spec2Model ----
(***************************************************************************)
(* Model of the SmartCareer course recommender (src/app.py).               *)
(*                                                                         *)
(* Strings that the program splits, strips or lower-cases are sequences of *)
(* one-character strings.  Text the program assembles (profile text,       *)
(* explanations) is a sequence of pieces: literal template pieces are      *)
(* single elements, data is spliced in character by character.             *)
(*                                                                         *)
(* Numbers: a raw similarity (sims * 100) is an integer count of           *)
(* thousandths, a fit_score (rounded to 2 decimals) an integer count of    *)
(* hundredths.                                                             *)
(*                                                                         *)
(* The TF-IDF vectorizer and cosine_similarity are library code: the       *)
(* similarity vector of a request is an input drawn from SimVectors.       *)
(***************************************************************************)
EXTENDS Integers, Sequences, FiniteSets, TLC

\* ------------------------------------------------------------------ bounds
\* Number of rows of courses.csv.
NumCourses == 2
\* Largest top_n passed in a direct call of recommend_courses_ui.
MaxTopN == 2
\* Largest number of comma-separated tokens of a raw tech-skills input.
MaxRawTokens == 6

\* --------------------------------------------------------- program constants
\* top_n the button handler passes (and the default of the parameter).
DefaultTopN == 7
\* "fit_score > 70", in hundredths.
ShortTermThreshold == 7000

Levels == {"beginner", "intermediate", "advanced"}

\* ------------------------------------------------------------ str methods
Whitespace == {" ", "\t"}

\* str.lower() on one character of the modelled alphabet.
LowerChar(c) ==
  CASE c = "P" -> "p"
    [] c = "S" -> "s"
    [] c = "M" -> "m"
    [] OTHER -> c

Lower(s) == [i \in 1..Len(s) |-> LowerChar(s[i])]

RECURSIVE LStrip(_)
LStrip(s) ==
  IF s # <<>> /\ Head(s) \in Whitespace THEN LStrip(Tail(s)) ELSE s

RECURSIVE RStrip(_)
RStrip(s) ==
  IF s # <<>> /\ s[Len(s)] \in Whitespace
  THEN RStrip(SubSeq(s, 1, Len(s) - 1))
  ELSE s

\* str.strip()
Strip(s) == RStrip(LStrip(s))

\* str.split(sep): always at least one token; "".split(",") is [""].
RECURSIVE Split(_, _)
Split(s, sep) ==
  IF \E i \in 1..Len(s) : s[i] = sep
  THEN LET i == CHOOSE k \in 1..Len(s) :
                  s[k] = sep /\ \A j \in 1..(k - 1) : s[j] # sep
       IN  <<SubSeq(s, 1, i - 1)>> \o Split(SubSeq(s, i + 1, Len(s)), sep)
  ELSE <<s>>

\* sep.join(parts)
RECURSIVE Join(_, _)
Join(parts, sep) ==
  IF parts = <<>> THEN <<>>
  ELSE IF Len(parts) = 1 THEN parts[1]
  ELSE parts[1] \o sep \o Join(Tail(parts), sep)

Range(s) == {s[i] : i \in 1..Len(s)}

\* [s.strip().lower() for s in input.split(",") if s.strip()]
NormalizeSkills(input) ==
  LET toks == Split(input, ",")
      kept == SelectSeq(toks, LAMBDA t : Strip(t) # <<>>)
  IN  [i \in 1..Len(kept) |-> Lower(Strip(kept[i]))]

\* ------------------------------------------------- build_user_profile_text
build_user_profile_text(edu, maj, tech, soft, target, duration) ==
  LET tech_skills_clean == [i \in 1..Len(tech) |-> Lower(Strip(tech[i]))]
      soft_skills_clean == [i \in 1..Len(soft) |-> Lower(Strip(soft[i]))]
      parts == << <<"Education level: ", edu>>,
                  <<"Major: ">> \o maj,
                  <<"Technical skills: ">> \o Join(tech_skills_clean, <<", ">>),
                  <<"Soft skills: ">> \o Join(soft_skills_clean, <<", ">>) >>
               \o (IF target # "" THEN << <<"Target domain: ", target>> >>
                   ELSE <<>>)
               \o (IF duration # ""
                   THEN << <<"Preferred study duration: ", duration>> >>
                   ELSE <<>>)
  IN  Join(parts, <<". ">>)

\* ----------------------------------------------------- estimate_user_level
\* Variant: the intermediate tier ends at four skills.
estimate_user_level_upto4(ts) ==
  LET n == Len(ts)
  IN  IF n <= 2 THEN "beginner"
      ELSE IF n <= 4 THEN "intermediate"
      ELSE "advanced"

estimate_user_level(ts) ==
  LET n == Len(ts)
  IN  IF n <= 2 THEN "beginner"
      ELSE IF n <= 5 THEN "intermediate"
      ELSE "advanced"

\* -------------------------------------------------------- level_compatible
\* order.get(level, 0)
LevelOrder(lvl) ==
  CASE lvl = "beginner" -> 0
    [] lvl = "intermediate" -> 1
    [] lvl = "advanced" -> 2
    [] OTHER -> 0

\* Variant: a course is compatible only up to the user's own tier.
level_compatible_own_tier(ul, course_level) ==
  LET u == LevelOrder(ul)
      c == LevelOrder(course_level)
  IN  c <= u

level_compatible(ul, course_level) ==
  LET u == LevelOrder(ul)
      c == LevelOrder(course_level)
  IN  c <= u + 1

\* ---------------------------------------------------- recommend_courses_ui
\* round(2) of a raw score: thousandths to hundredths, half to even.
Round2(raw) ==
  LET q == raw \div 10
      r == raw % 10
  IN  IF r < 5 THEN q
      ELSE IF r > 5 THEN q + 1
      ELSE IF q % 2 = 0 THEN q ELSE q + 1

\* df["fit_score"] = (sims * 100).round(2)
FitScores(s) == [i \in 1..Len(s) |-> Round2(s[i])]

\* Variant: the column is computed for the tier of an earlier, advanced user.
LevelOkColumnStaleTier(df, ul) ==
  [i \in 1..Len(df) |-> level_compatible("advanced", df[i].level)]

\* df["level_ok"] = df["level"].apply(lambda lvl: level_compatible(user_level, lvl))
LevelOkColumn(df, ul) ==
  [i \in 1..Len(df) |-> level_compatible(ul, df[i].level)]

\* df[df["level_ok"]]: the kept rows, as positions of df_courses, in row order.
FilterRows(df, ok) ==
  SelectSeq([i \in 1..Len(df) |-> i], LAMBDA i : ok[i])

Perms(S) ==
  {f \in [1..Cardinality(S) -> S] :
     \A i, j \in 1..Cardinality(S) : i # j => f[i] # f[j]}

\* sort_values(by="fit_score", ascending=False) with the default kind
\* ("quicksort", not a stable sort): every arrangement of the kept rows in
\* which fit_score does not increase is a possible outcome.
SortValues(kept, fit) ==
  {p \in Perms(Range(kept)) :
     \A i, j \in 1..Len(kept) : i < j => fit[p[i]] >= fit[p[j]]}

\* Variant: no truncation.
DfHeadAll(rows, n) == rows

\* df.head(top_n), top_n >= 0
DfHead(rows, n) == SubSeq(rows, 1, IF n < Len(rows) THEN n ELSE Len(rows))

\* tags = [t.strip().lower() for t in row["skill_tags"].split(",")]
Tags(skill_tags) ==
  LET toks == Split(skill_tags, ",")
  IN  [i \in 1..Len(toks) |-> Lower(Strip(toks[i]))]

\* matched = list(set(tags) & tech_skills_set): the elements of a set, listed
\* in the set's iteration order, which is any order.
MatchedLists(tags, tech_skills_set) ==
  Perms(Range(tags) \cap tech_skills_set)

\* missing = [t for t in tags if t not in matched]
Missing(tags, matched) ==
  SelectSeq(tags, LAMBDA t : t \notin Range(matched))

\* Variant: the threshold itself counts as short-term.
TimelineAtLeast(level, fit_score) ==
  IF level = "beginner" THEN "short-term"
  ELSE IF level = "intermediate"
       THEN IF fit_score >= ShortTermThreshold THEN "short-term"
            ELSE "long-term"
  ELSE "long-term"

Timeline(level, fit_score) ==
  IF level = "beginner" THEN "short-term"
  ELSE IF level = "intermediate"
       THEN IF fit_score > ShortTermThreshold THEN "short-term"
            ELSE "long-term"
  ELSE "long-term"

Explanation(matched, missing) ==
  IF matched # <<>> /\ missing # <<>>
  THEN <<"This course leverages your skills in ">> \o Join(matched, <<", ">>)
       \o <<" and helps you build ">> \o Join(missing, <<", ">>) \o <<".">>
  ELSE IF matched # <<>> /\ missing = <<>>
  THEN <<"This course strongly matches your current skills (">>
       \o Join(matched, <<", ">>) \o <<") and deepens your expertise.">>
  ELSE IF matched = <<>> /\ missing # <<>>
  THEN <<"This course introduces new skills such as ">>
       \o Join(missing, <<", ">>) \o <<", aligned with your target domain.">>
  ELSE <<"This course is relevant to your profile based on overall similarity.">>

\* One row of the returned frame; course is the row's position in df_courses.
ResultRow(df, i, fit, matched) ==
  [course      |-> i,
   level       |-> df[i].level,
   skill_tags  |-> df[i].skill_tags,
   fit_score   |-> fit[i],
   timeline    |-> Timeline(df[i].level, fit[i]),
   explanation |-> Explanation(matched,
                               Missing(Tags(df[i].skill_tags), matched))]

\* The loop over df.iterrows(): one row per ranked course, for every order in
\* which the matched sets may be listed.
AnnotatedRows(df, ranked, fit, ts) ==
  LET k == Len(ranked)
      choices(i) == MatchedLists(Tags(df[ranked[i]].skill_tags), Range(ts))
      all == UNION {choices(i) : i \in 1..k}
  IN  {[i \in 1..k |-> ResultRow(df, ranked[i], fit, m[i])] :
         m \in {f \in [1..k -> all] : \A i \in 1..k : f[i] \in choices(i)}}

\* Variant: the major is tested without strip().
MajorIsEmpty(m) == m = <<>>

\* if not major.strip()
MajorIsBlank(m) == Strip(m) = <<>>

\* ------------------------------------------------------------------ inputs
\* Two of the ten options of the "Education Level" selectbox; "M.Sc" is the
\* option at the default index 6.
EducationLevels == {"M.Sc", "B.Tech"}

\* "Major / Degree": empty (the default), whitespace only, and "cs".
Majors == {<<>>, <<" ">>, <<"c", "s">>}

\* "Technical Skills": "p, s, m" stands for the default "python, sql, excel".
DefaultTechInput == <<"p", ",", " ", "s", ",", " ", "m">>

TechInputs ==
  {<<>>,
   <<"p">>,
   <<" ", "S", " ", ",", "p">>,
   DefaultTechInput,
   <<"p", ",", "s", ",", "m", ",", "p", ",", "s", ",", "m">>}

\* "Soft Skills": "c, t" stands for the default "communication, teamwork".
DefaultSoftInput == <<"c", ",", " ", "t">>

SoftInputs == {DefaultSoftInput, <<>>}

TargetDomains == {"data science", ""}

\* Two of the four options of "Preferred Study Duration"; the first is the
\* default.
Durations == {"No preference", "1-3 months"}

\* skill_tags cells of courses.csv: "p, S" and "m".
TagStrings == {<<"p", ",", " ", "S">>, <<"m">>}

CourseKinds == [level : Levels, skill_tags : TagStrings]

\* courses.csv: every table of NumCourses rows.
Catalogs == [1..NumCourses -> CourseKinds]

Course(lvl, tags) == [level |-> lvl, skill_tags |-> tags]

\* The catalogs of the interactive sessions: three two-row tables.
SessionCatalogs ==
  {<<Course("advanced", <<"p", ",", " ", "S">>),
     Course("intermediate", <<"m">>)>>,
   <<Course("intermediate", <<"p", ",", " ", "S">>),
     Course("beginner", <<"m">>)>>,
   <<Course("beginner", <<"p", ",", " ", "S">>),
     Course("advanced", <<"m">>)>>}

\* sims * 100 before rounding, in thousandths: 69.996, 70.004 and 70.006.
RawScores == {69996, 70004, 70006}

\* cosine_similarity(user_tfidf, course_tfidf)[0] * 100: one raw score per row.
SimVectors(df) == [1..Len(df) -> RawScores]

\* Raw tokens a comma-separated input is made of: empty, blank, "p", " S ".
RawTokens == {<<>>, <<" ">>, <<"p">>, <<" ", "S", " ">>}

\* Every input of at most MaxRawTokens comma-separated raw tokens.
RawInputs ==
  {Join(ts, <<",">>) :
     ts \in UNION {[1..n -> RawTokens] : n \in 1..MaxRawTokens}}

\* ------------------------------------------------------------------- state
VARIABLES
  df_courses,          \* the catalog read at line 9
  education_level,     \* widget values / arguments of the call
  major,
  tech_skills_input,
  soft_skills_input,
  target_domain,
  preferred_duration,
  top_n,               \* top_n of the call
  sims,                \* raw scores of the call, <<>> when none was computed
  tech_skills,         \* locals of recommend_courses_ui, as of its return
  user_profile_text,
  user_level,          \* "none" when no call was made in this run
  level_ok,
  recs,                \* the returned rows
  outcome              \* what the run ended with

fields ==
  <<education_level, major, tech_skills_input, soft_skills_input,
    target_domain, preferred_duration>>

locals == <<sims, tech_skills, user_profile_text, user_level, level_ok, recs>>

vars == <<df_courses, fields, top_n, locals, outcome>>

\* A run of the script in which recommend_courses_ui is not called.
NoCall ==
  /\ sims' = <<>>
  /\ tech_skills' = <<>>
  /\ user_profile_text' = <<>>
  /\ user_level' = "none"
  /\ level_ok' = <<>>
  /\ recs' = <<>>

\* recommend_courses_ui(education_level, ..., preferred_duration, top_n = n)
\* with s the raw scores the similarity step yields.
RecommendCoursesUI(s, n) ==
  LET ts   == NormalizeSkills(tech_skills_input)
      ss   == NormalizeSkills(soft_skills_input)
      text == build_user_profile_text(education_level, major, ts, ss,
                                      target_domain, preferred_duration)
      fit  == FitScores(s)
      ul   == estimate_user_level(ts)
      ok   == LevelOkColumn(df_courses, ul)
      kept == FilterRows(df_courses, ok)
  IN  /\ tech_skills' = ts
      /\ user_profile_text' = text
      /\ sims' = s
      /\ top_n' = n
      /\ user_level' = ul
      /\ level_ok' = ok
      /\ \E sorted \in SortValues(kept, fit) :
           \E rows \in AnnotatedRows(df_courses, DfHead(sorted, n), fit, ts) :
             recs' = rows

\* ------------------------------------------------ the Streamlit application
Init ==
  /\ df_courses \in SessionCatalogs
  /\ education_level = "M.Sc"
  /\ major = <<>>
  /\ tech_skills_input = DefaultTechInput
  /\ soft_skills_input = DefaultSoftInput
  /\ target_domain = "data science"
  /\ preferred_duration = "No preference"
  /\ top_n = DefaultTopN
  /\ sims = <<>>
  /\ tech_skills = <<>>
  /\ user_profile_text = <<>>
  /\ user_level = "none"
  /\ level_ok = <<>>
  /\ recs = <<>>
  /\ outcome = "idle"

\* A widget changes: the script reruns, the button reads False, nothing is
\* computed or rendered.
Rerun ==
  /\ NoCall
  /\ outcome' = "idle"
  /\ UNCHANGED <<df_courses, top_n>>

SelectEducationLevel ==
  \E v \in EducationLevels \ {education_level} :
    /\ education_level' = v
    /\ Rerun
    /\ UNCHANGED <<major, tech_skills_input, soft_skills_input,
                   target_domain, preferred_duration>>

EditMajor ==
  \E v \in Majors \ {major} :
    /\ major' = v
    /\ Rerun
    /\ UNCHANGED <<education_level, tech_skills_input, soft_skills_input,
                   target_domain, preferred_duration>>

EditTechSkills ==
  \E v \in TechInputs \ {tech_skills_input} :
    /\ tech_skills_input' = v
    /\ Rerun
    /\ UNCHANGED <<education_level, major, soft_skills_input,
                   target_domain, preferred_duration>>

EditSoftSkills ==
  \E v \in SoftInputs \ {soft_skills_input} :
    /\ soft_skills_input' = v
    /\ Rerun
    /\ UNCHANGED <<education_level, major, tech_skills_input,
                   target_domain, preferred_duration>>

EditTargetDomain ==
  \E v \in TargetDomains \ {target_domain} :
    /\ target_domain' = v
    /\ Rerun
    /\ UNCHANGED <<education_level, major, tech_skills_input,
                   soft_skills_input, preferred_duration>>

SelectPreferredDuration ==
  \E v \in Durations \ {preferred_duration} :
    /\ preferred_duration' = v
    /\ Rerun
    /\ UNCHANGED <<education_level, major, tech_skills_input,
                   soft_skills_input, target_domain>>

\* if st.button("Get Recommendations"): the blank-major branch.
ClickWarning ==
  /\ MajorIsBlank(major)
  /\ NoCall
  /\ outcome' = "warning"
  /\ UNCHANGED <<df_courses, fields, top_n>>

\* if st.button("Get Recommendations"): the else branch.
ClickRecommend ==
  /\ ~MajorIsBlank(major)
  /\ \E s \in SimVectors(df_courses) : RecommendCoursesUI(s, DefaultTopN)
  /\ outcome' = IF recs' = <<>> THEN "no_results" ELSE "results"
  /\ UNCHANGED <<df_courses, fields>>

ClickGetRecommendations == ClickWarning \/ ClickRecommend

Next ==
  \/ SelectEducationLevel
  \/ EditMajor
  \/ EditTechSkills
  \/ EditSoftSkills
  \/ EditTargetDomain
  \/ SelectPreferredDuration
  \/ ClickGetRecommendations

Spec == Init /\ [][Next]_vars

\* ------------------------------- recommend_courses_ui, called on its own
InitRank ==
  /\ df_courses \in Catalogs
  /\ education_level = "M.Sc"
  /\ major = <<"c", "s">>
  /\ tech_skills_input \in TechInputs
  /\ soft_skills_input = DefaultSoftInput
  /\ target_domain = "data science"
  /\ preferred_duration = "No preference"
  /\ top_n \in 0..MaxTopN
  /\ sims \in SimVectors(df_courses)
  /\ tech_skills = <<>>
  /\ user_profile_text = <<>>
  /\ user_level = "none"
  /\ level_ok = <<>>
  /\ recs = <<>>
  /\ outcome = "idle"

CallRecommend ==
  /\ outcome = "idle"
  /\ RecommendCoursesUI(sims, top_n)
  /\ outcome' = "returned"
  /\ UNCHANGED <<df_courses, fields>>

NextRank == CallRecommend

SpecRank == InitRank /\ [][NextRank]_vars

\* --------------------- skill normalisation and estimate_user_level alone
InitTier ==
  /\ df_courses = <<>>
  /\ education_level = "M.Sc"
  /\ major = <<"c", "s">>
  /\ tech_skills_input \in RawInputs
  /\ soft_skills_input = DefaultSoftInput
  /\ target_domain = "data science"
  /\ preferred_duration = "No preference"
  /\ top_n = DefaultTopN
  /\ sims = <<>>
  /\ tech_skills = <<>>
  /\ user_profile_text = <<>>
  /\ user_level = "none"
  /\ level_ok = <<>>
  /\ recs = <<>>
  /\ outcome = "idle"

\* Lines 56 and 70 of recommend_courses_ui.
EstimateUserLevel ==
  /\ outcome = "idle"
  /\ tech_skills' = NormalizeSkills(tech_skills_input)
  /\ user_level' = estimate_user_level(tech_skills')
  /\ outcome' = "estimated"
  /\ UNCHANGED <<df_courses, fields, top_n, sims, user_profile_text,
                 level_ok, recs>>

NextTier == EstimateUserLevel

SpecTier == InitTier /\ [][NextTier]_vars

\* =================================================================== claims
\* The claims' own tables, written from the claims and not from the code.
TierIndex == [beginner |-> 0, intermediate |-> 1, advanced |-> 2]

CompatTable ==
  [beginner     |-> {"beginner", "intermediate"},
   intermediate |-> {"beginner", "intermediate", "advanced"},
   advanced     |-> {"beginner", "intermediate", "advanced"}]

TierOfCount(n) ==
  IF n \in 0..2 THEN "beginner"
  ELSE IF n \in 3..5 THEN "intermediate"
  ELSE "advanced"

\* Number of comma-separated tokens of raw that hold a non-blank character:
\* the positions that are the first non-blank character of their token.
NonBlankTokenCount(raw) ==
  Cardinality(
    {i \in 1..Len(raw) :
       /\ raw[i] \notin Whitespace \cup {","}
       /\ \A j \in 1..(i - 1) :
            (\A k \in j..(i - 1) : raw[k] # ",") => raw[j] \in Whitespace})

Contains(text, piece) ==
  \E i \in 1..(Len(text) - Len(piece) + 1) :
    SubSeq(text, i, i + Len(piece) - 1) = piece

Positions(text, piece) == {i \in 1..Len(text) : text[i] = piece}

EligibleRows ==
  {i \in 1..Len(df_courses) : df_courses[i].level \in CompatTable[user_level]}

\* C1: in every state of every session, each returned course is
\* level-compatible with the tier estimated from the tech skills of the
\* request that produced it, and its level index exceeds that tier's index by
\* at most one.
C1_EligibilityPerRequest ==
  \A i \in 1..Len(recs) :
    LET tier == TierOfCount(NonBlankTokenCount(tech_skills_input))
    IN  /\ level_compatible(
             estimate_user_level(NormalizeSkills(tech_skills_input)),
             recs[i].level)
        /\ recs[i].level = df_courses[recs[i].course].level
        /\ TierIndex[recs[i].level] <= TierIndex[tier] + 1

\* A beginner's request returned courses while an advanced course of the
\* catalog was left out.
C1_Witness ==
  /\ outcome = "results"
  /\ user_level = "beginner"
  /\ \E i \in 1..Len(df_courses) :
       /\ df_courses[i].level = "advanced"
       /\ \A j \in 1..Len(recs) : recs[j].course # i

\* C2: the returned fit_score never increases from one row to the next, and
\* rows of equal fit_score keep their catalog order.
C2_MonotonicStableRanking ==
  \A i, j \in 1..Len(recs) :
    i < j =>
      /\ recs[i].fit_score >= recs[j].fit_score
      /\ (recs[i].fit_score = recs[j].fit_score
            => recs[i].course < recs[j].course)

\* C3: level_compatible is exactly the table beginner -> {beginner,
\* intermediate}, intermediate -> all, advanced -> all (index(c) <=
\* index(t) + 1), and the level_ok column of a call is that table applied to
\* the user's tier.
C3_LevelCompatibleTable ==
  /\ \A t, c \in Levels :
       /\ level_compatible(t, c) = (c \in CompatTable[t])
       /\ level_compatible(t, c) = (TierIndex[c] <= TierIndex[t] + 1)
  /\ outcome = "returned" =>
       \A i \in 1..Len(df_courses) :
         level_ok[i] = (df_courses[i].level \in CompatTable[user_level])

\* A beginner's call marked an advanced course as not compatible.
C3_Witness ==
  /\ outcome = "returned"
  /\ user_level = "beginner"
  /\ \E i \in 1..Len(df_courses) :
       df_courses[i].level = "advanced" /\ ~level_ok[i]

\* C4: the tier is beginner for 0..2 normalized skills, intermediate for
\* 3..5, advanced for 6 or more; the normalized list has one entry per
\* non-blank token of the raw input, duplicates included.
C4_TierEstimation ==
  outcome = "estimated" =>
    /\ Len(tech_skills) = NonBlankTokenCount(tech_skills_input)
    /\ user_level = TierOfCount(Len(tech_skills))

\* Five skills, two of them equal, from an input with a blank token: still
\* intermediate.
C4_Witness ==
  /\ outcome = "estimated"
  /\ Len(tech_skills) = 5
  /\ tech_skills[1] = tech_skills[2]
  /\ Cardinality(Positions(tech_skills_input, ",")) >= 5
  /\ user_level = "intermediate"

\* C5: a call with top_n >= 0 returns at most min(top_n, number of
\* level-compatible courses) rows, and the empty sequence when no course is
\* compatible.
C5_TopNBound ==
  outcome = "returned" =>
    /\ Len(recs) <= top_n
    /\ Len(recs) <= Cardinality(EligibleRows)
    /\ (EligibleRows = {} => recs = <<>>)

\* More courses were compatible than top_n allowed, and top_n were returned.
C5_Witness ==
  /\ outcome = "returned"
  /\ top_n >= 1
  /\ Cardinality(EligibleRows) > top_n
  /\ Len(recs) = top_n

\* C6: the profile text holds "Preferred study duration: ..." only when the
\* duration is non-empty and not "No preference", "Target domain: ..." only
\* when the target domain is non-empty, and the four required sentences in
\* their fixed order.
C6_ProfileTextSentences ==
  user_profile_text # <<>> =>
    /\ Contains(user_profile_text,
                <<"Preferred study duration: ", preferred_duration>>)
         => preferred_duration \notin {"", "No preference"}
    /\ Contains(user_profile_text, <<"Target domain: ", target_domain>>)
         => target_domain # ""
    /\ \E a \in Positions(user_profile_text, "Education level: ") :
         \E b \in Positions(user_profile_text, "Major: ") :
           \E c \in Positions(user_profile_text, "Technical skills: ") :
             \E d \in Positions(user_profile_text, "Soft skills: ") :
               a = 1 /\ a < b /\ b < c /\ c < d

\* C7: a click with a blank major ends in the warning with nothing computed,
\* and whatever was computed was computed for a non-blank major.
C7_MajorValidationGate ==
  LET blank == \A i \in 1..Len(major) : major[i] \in Whitespace
      computed == \/ sims # <<>>
                  \/ user_level # "none"
                  \/ user_profile_text # <<>>
                  \/ level_ok # <<>>
                  \/ recs # <<>>
  IN  /\ (blank /\ outcome # "idle") => outcome = "warning"
      /\ outcome = "warning" => blank /\ ~computed
      /\ computed => ~blank
      /\ outcome \in {"results", "no_results"} => ~blank /\ computed

\* A click with a whitespace-only major ended in the warning.
C7_Witness ==
  /\ outcome = "warning"
  /\ major = <<" ">>

\* C8: beginner rows are short-term, advanced rows long-term, intermediate
\* rows short-term above 70.00 and long-term at or below it.
C8_TimelineRule ==
  \A i \in 1..Len(recs) :
    LET r == recs[i]
    IN  /\ r.fit_score = Round2(sims[r.course])
        /\ r.level = "beginner" => r.timeline = "short-term"
        /\ (r.level = "intermediate" /\ r.fit_score > 7000)
             => r.timeline = "short-term"
        /\ (r.level = "intermediate" /\ r.fit_score <= 7000)
             => r.timeline = "long-term"
        /\ r.level = "advanced" => r.timeline = "long-term"

\* An intermediate course scored exactly 70.00 and was labelled long-term.
C8_Witness ==
  /\ outcome = "returned"
  /\ \E i \in 1..Len(recs) :
       /\ recs[i].level = "intermediate"
       /\ recs[i].fit_score = 7000
       /\ recs[i].timeline = "long-term"

\* C9: the explanation of a row is the template chosen by (matched
\* non-empty, missing non-empty), with matched and missing both listed in
\* the order of the course's tags and joined with ", ".
C9_ExplanationTemplates ==
  \A i \in 1..Len(recs) :
    LET tags    == Tags(recs[i].skill_tags)
        matched == SelectSeq(tags, LAMBDA t : t \in Range(tech_skills))
        missing == SelectSeq(tags, LAMBDA t : t \notin Range(tech_skills))
        m       == Join(matched, <<", ">>)
        x       == Join(missing, <<", ">>)
    IN  recs[i].explanation =
          IF matched # <<>> /\ missing # <<>>
          THEN <<"This course leverages your skills in ">> \o m
               \o <<" and helps you build ">> \o x \o <<".">>
          ELSE IF matched # <<>>
          THEN <<"This course strongly matches your current skills (">> \o m
               \o <<") and deepens your expertise.">>
          ELSE IF missing # <<>>
          THEN <<"This course introduces new skills such as ">> \o x
               \o <<", aligned with your target domain.">>
          ELSE <<"This course is relevant to your profile based on overall similarity.">>

\* C10: of two compatible courses with different raw scores the one with the
\* higher raw score is ranked first, also when both round to the same
\* fit_score; a course cut off by top_n has no higher raw score than a
\* returned one.
C10_RawScoreRanking ==
  outcome = "returned" =>
    /\ \A i, j \in 1..Len(recs) :
         i < j => sims[recs[i].course] >= sims[recs[j].course]
    /\ \A i \in 1..Len(recs) :
         \A e \in EligibleRows \ {recs[j].course : j \in 1..Len(recs)} :
           sims[recs[i].course] >= sims[e]

====
